---------------------------- MODULE Spec2Model ----------------------------
(***************************************************************************)
(* A model of the block-transform image compressor of kompresiRLe.py:      *)
(* the quantization matrix builders, process_channel_dct, the metrics and  *)
(* the apply_dct / _apply_dct_thread pipeline with the Tk main thread.     *)
(*                                                                         *)
(* Numbers.  float32 values that the code computes exactly are modelled    *)
(* exactly: a quantization step is an integer count of 1/QUnit, so the     *)
(* bilinear resize to 16x16 and 32x32 (weights in 1/16ths) and the scale   *)
(* step (1 + (1 - level) * 10 = (110 - percent) / 10) are exact.           *)
(***************************************************************************)
EXTENDS Integers, Sequences, FiniteSets, TLC

(***************************************************************************)
(* Bounds of the model.                                                    *)
(***************************************************************************)
\* Largest plane height and width drawn for process_channel_dct.
MaxDim == 5
\* Largest compression level, in percent, drawn for the matrix builders.
MaxLevel == 105
\* How many times apply_dct starts a worker thread.
MaxRuns == 2
\* How many times load_image is called.
MaxLoads == 2
\* How many times the user changes one of the four controls.
MaxEdits == 1
\* The most add_to_recent_files calls of a session of SpecRecent.
MaxAdds == 12

(***************************************************************************)
(* Program constants.                                                      *)
(***************************************************************************)
\* The block sizes of the combobox: "4x4", "8x8", "16x16", "32x32".
BlockSizes == {4, 8, 16, 32}
\* The quantization policies of the combobox.
Quantizations == {"Standard JPEG", "Custom", "Uniform"}
\* The colour spaces of the combobox.
ColorSpaces == {"RGB", "YCbCr", "Grayscale"}
\* One quantization step is QUnit units: 256 for the resize weights, 10 for
\* the scale step.
QUnit == 256 * 10

(***************************************************************************)
(* Integer helpers.                                                        *)
(***************************************************************************)
Min(a, b) == IF a < b THEN a ELSE b

\* The integer square root: the largest r with r * r <= n, by bisection.
RECURSIVE ISqrtIn(_, _, _)
ISqrtIn(n, lo, hi) ==
    IF lo >= hi THEN lo
    ELSE LET mid == (lo + hi + 1) \div 2
         IN  IF mid * mid <= n THEN ISqrtIn(n, mid, hi) ELSE ISqrtIn(n, lo, mid - 1)
ISqrt(n) == ISqrtIn(n, 0, Min(n, 46340))

\* np.round: round to nearest, ties to the even integer; num / den with den > 0.
RoundHalfEven(num, den) ==
    LET fl == num \div den
        twice == 2 * (num - fl * den)
    IN  IF twice < den THEN fl
        ELSE IF twice > den THEN fl + 1
        ELSE IF fl % 2 = 0 THEN fl ELSE fl + 1


(***************************************************************************)
(* Quantization matrices.  A matrix of size n is a function on             *)
(* Idx(n, n) = (0..n-1) \X (0..n-1), row index first, as numpy indexes it; *)
(* an entry is a count of 1/QUnit.                                         *)
(***************************************************************************)
Idx(rows, cols) == (0 .. rows - 1) \X (0 .. cols - 1)

\* np.clip(v, lo, hi)
Clip(v, lo, hi) == IF v < lo THEN lo ELSE IF v > hi THEN hi ELSE v

\* The standard JPEG luminance table (size 8).
JpegTable ==
    << <<16, 11, 10, 16, 24, 40, 51, 61>>,
       <<12, 12, 14, 19, 26, 58, 60, 55>>,
       <<14, 13, 16, 24, 40, 57, 69, 56>>,
       <<14, 17, 22, 29, 51, 87, 80, 62>>,
       <<18, 22, 37, 56, 68, 109, 103, 77>>,
       <<24, 35, 55, 64, 81, 104, 113, 92>>,
       <<49, 64, 78, 87, 103, 121, 120, 101>>,
       <<72, 92, 95, 98, 112, 100, 103, 99>> >>

\* The 4x4 base table resized for the other sizes.
BaseQ ==
    << <<16, 11, 10, 16>>,
       <<12, 12, 14, 19>>,
       <<14, 13, 16, 24>>,
       <<14, 17, 22, 29>> >>

\* cv2.resize(..., INTER_LINEAR) along one axis from 4 samples to `size`:
\* destination d reads source (d + 0.5) * 4 / size - 0.5, that is source
\* sample s and its right neighbour with weights (den - f) / den and f / den,
\* den = 2 * size; a coordinate left of sample 0 or at or right of sample 3
\* reads that border sample alone.
ResizeCoord(d, size) ==
    LET den == 2 * size
        num == 8 * d + 4 - size
        sx  == num \div den
    IN  IF sx < 0 THEN [s |-> 0, f |-> 0]
        ELSE IF sx >= 3 THEN [s |-> 3, f |-> 0]
        ELSE [s |-> sx, f |-> num - sx * den]

\* One entry of cv2.resize(base_q, (size, size), INTER_LINEAR), in 1/QUnit.
ResizedEntry(i, j, size) ==
    LET den == 2 * size
        cy  == ResizeCoord(i, size)
        cx  == ResizeCoord(j, size)
        y0  == cy.s + 1
        y1  == Min(cy.s + 1, 3) + 1
        x0  == cx.s + 1
        x1  == Min(cx.s + 1, 3) + 1
        sum == (den - cy.f) * (den - cx.f) * BaseQ[y0][x0]
               + (den - cy.f) * cx.f * BaseQ[y0][x1]
               + cy.f * (den - cx.f) * BaseQ[y1][x0]
               + cy.f * cx.f * BaseQ[y1][x1]
    IN  (sum * QUnit) \div (den * den)

\* create_jpeg_quantization_matrix(size)
create_jpeg_quantization_matrix(size) ==
    [p \in Idx(size, size) |->
        IF size = 8
        THEN JpegTable[p[1] + 1][p[2] + 1] * QUnit
        ELSE Clip(ResizedEntry(p[1], p[2], size), 1 * QUnit, 255 * QUnit)]

\* 50 * sqrt(i^2 + j^2) / sqrt(2 * size^2) in 1/QUnit: the two roots are
\* taken to three decimals and the quotient is truncated to 1/256.
CustomRamp(i, j, size) ==
    ((50 * 256 * ISqrt(1000000 * (i * i + j * j)))
        \div ISqrt(1000000 * 2 * size * size)) * (QUnit \div 256)

\* create_custom_quantization_matrix(size): matrix[i,j] = 1 + normalized * 50
create_custom_quantization_matrix(size) ==
    [p \in Idx(size, size) |-> 1 * QUnit + CustomRamp(p[1], p[2], size)]

\* np.ones((block_size, block_size))
UniformMatrix(size) == [p \in Idx(size, size) |-> 1 * QUnit]

\* process_channel_dct, "Create quantization matrix": the policy dispatch;
\* anything that is neither "Standard JPEG" nor "Uniform" is Custom.
CreateQMatrix(quantization, size) ==
    IF quantization = "Standard JPEG" THEN create_jpeg_quantization_matrix(size)
    ELSE IF quantization = "Uniform" THEN UniformMatrix(size)
    ELSE create_custom_quantization_matrix(size)

\* The scale factor with the sign of its level term flipped.
ScaleTenthsSignFlipped(percent) == 10 - (100 - percent)

\* The scale factor 1.0 + (1.0 - compression_level) * 10 in tenths, for
\* compression_level = percent / 100.0.
ScaleTenths(percent) == 10 + (100 - percent)

\* q_matrix * (1.0 + (1.0 - compression_level) * 10)
ScaleQMatrix(q, percent) ==
    [p \in DOMAIN q |-> (q[p] * ScaleTenths(percent)) \div 10]


(***************************************************************************)
(* process_channel_dct.  A plane is a function on Idx(height, width).      *)
(* float32 samples and coefficients are integers here.  A quantization    *)
(* step is never zero: the unscaled entries are at least 1 and the float   *)
(* scale factor is zero for no integer percentage (at 110 it evaluates to  *)
(* -8.9e-16), so no level at which the exact factor is zero is drawn.      *)
(***************************************************************************)

\* The bottom-right rows x cols corner of the matrix, as for a block that
\* was padded at its top and left.
SubMatrixBottomRight(q, rows, cols) ==
    LET size == ISqrt(Cardinality(DOMAIN q))
    IN  [p \in Idx(rows, cols) |-> q[<<p[1] + size - rows, p[2] + size - cols>>]]

\* q_matrix[:rows, :cols]
SubMatrix(q, rows, cols) == [p \in Idx(rows, cols) |-> q[p]]

\* channel[y:y+block_size, x:x+block_size].astype(np.float32) - 128: numpy
\* clips the slice to the plane, so the block has `rows` x `cols` samples.
ShiftedBlock(plane, by, bx, rows, cols) ==
    [p \in Idx(rows, cols) |-> plane[<<by + p[1], bx + p[2]>>] - 128]

\* cv2.dct and cv2.idct transform along each axis whose length is not 1, and
\* raise "Odd-size DCT's are not implemented" for an odd length above 1.
DctRaises(rows, cols) ==
    \/ rows > 1 /\ rows % 2 = 1
    \/ cols > 1 /\ cols % 2 = 1

\* cv2.dct(block).  The transform is OpenCV's native code: of its result the
\* model keeps that it is linear (a zero block gives zero coefficients) and
\* otherwise lets the DC and the AC coefficients be any of a few values.
DctOutcomes(block) ==
    IF \A p \in DOMAIN block : block[p] = 0
    THEN {[p \in DOMAIN block |-> 0]}
    ELSE {[p \in DOMAIN block |-> IF p = <<0, 0>> THEN c[1] ELSE c[2]] :
             c \in {<<0 - 500, 25>>, <<37, 0>>}}

\* The quotient c / q with its fraction dropped towards minus infinity.
QuantizeFloor(c, q) == (c * QUnit) \div q

\* np.round(c / q) for a coefficient c and a step q /= 0 (in 1/QUnit).
Quantize(c, q) ==
    IF q > 0 THEN RoundHalfEven(c * QUnit, q)
    ELSE RoundHalfEven((0 - c) * QUnit, 0 - q)

\* quantized * q, in 1/QUnit.
Dequantize(k, q) == k * q

\* cv2.idct(dequantized) with the 128 not added back.
IdctOutcomesWithout128(dequantized) ==
    IF \A p \in DOMAIN dequantized : dequantized[p] = 0
    THEN {[p \in DOMAIN dequantized |-> 0]}
    ELSE {[p \in DOMAIN dequantized |-> r] : r \in {0 - 168, 0 - 28, 172}}

\* cv2.idct(dequantized) + 128: zero coefficients give 128 everywhere, and
\* otherwise the samples are any of a few values below, inside and above
\* the 8-bit range.
IdctPlus128Outcomes(dequantized) ==
    IF \A p \in DOMAIN dequantized : dequantized[p] = 0
    THEN {[p \in DOMAIN dequantized |-> 128]}
    ELSE {[p \in DOMAIN dequantized |-> r] : r \in {0 - 40, 100, 300}}

\* A clip that bounds a sample from below only.
ClipSampleFromBelow(v) == IF v < 0 THEN 0 ELSE v

\* np.clip(idct_block, 0, 255) on one sample.
ClipSample(v) == Clip(v, 0, 255)

\* .astype(np.uint8) of one float32 sample of `processed`: a value outside
\* 0..255 wraps modulo 2^8.
AsUint8(v) == v % 256

\* range(0, limit, step) as the loop variable sees it: the value after v,
\* or limit and beyond when the range is exhausted.
RangeNext(v, step) == v + step


(***************************************************************************)
(* State.                                                                  *)
(***************************************************************************)
VARIABLES
    \* One call of process_channel_dct: its arguments, its locals, where it
    \* is, and what it returned.
    channel,        \* [shape |-> <<height, width>>, data |-> the samples]
    pcd_args,       \* [block_size, compression_level (in percent), quantization]
    q_matrix,       \* the quantization matrix, in 1/QUnit
    y, x,           \* the loop variables: the origin of the next block
    processed,      \* the float32 plane np.zeros_like(channel)
    coeffs,         \* the quantized blocks appended so far
    returned,       \* processed.astype(np.uint8), once the call has returned
    pcd_pc,         \* "create" | "scale" | "loop" | "return" | "returned" | "raised"
    written,        \* per pixel, how many blocks have been written over it
    raw             \* per pixel, the idct_block + 128 sample behind the last write

VARIABLES
    \* The fields of DCTCompressorApp, the Tk variables and widgets it reads
    \* and writes, its worker threads and Tk's queue of after() callbacks.
    settings,           \* the dict of the settings file: key -> value
    original_image,     \* None or [file, shape]
    filename,
    file_size_before,
    processed_image,    \* None or the image a run merged
    dct_coefficients,   \* None or the per-channel archives of a run
    psnr_value,
    compression_ratio,
    compression_level,  \* IntVar, in percent
    block_size,         \* StringVar, "8x8"
    color_space,        \* StringVar
    quantization,       \* StringVar
    progress_var,       \* DoubleVar of the progress bar, 0..100
    progress_shown,     \* whether the progress bar is packed
    status_message,
    lbl_compression,
    lbl_psnr,
    toolbar_buttons,    \* button -> "normal" | "disabled"
    history,
    threads,            \* the frames of the _apply_dct_thread calls, by run
    after_queue,        \* root.after(0, ...) callbacks that have not run yet
    reported,           \* by run, the progress values reported for it so far
    loads,              \* how many load_image calls so far
    edits               \* how many control changes so far

pcdVars == <<channel, pcd_args, q_matrix, y, x, processed, coeffs, returned,
             pcd_pc, written, raw>>

appVars == <<settings, original_image, filename, file_size_before,
             processed_image, dct_coefficients, psnr_value, compression_ratio,
             compression_level, block_size, color_space, quantization,
             progress_var, progress_shown, status_message, lbl_compression,
             lbl_psnr, toolbar_buttons, history, threads, after_queue,
             reported, loads, edits>>

vars == <<pcdVars, appVars>>

\* The plane of `height` x `width` samples that are all v.
ConstPlane(height, width, v) ==
    [shape |-> <<height, width>>, data |-> [p \in Idx(height, width) |-> v]]

\* A function on no pixels: a local that holds nothing yet.
NoPlane == [p \in {} |-> 0]

\* The locals at the entry of process_channel_dct: processed is
\* np.zeros_like(channel, dtype=np.float32) and coeffs is [].
PcdEntry(plane, args) ==
    /\ channel = plane
    /\ pcd_args = args
    /\ q_matrix = NoPlane
    /\ y = 0
    /\ x = 0
    /\ processed = [p \in DOMAIN plane.data |-> 0]
    /\ coeffs = <<>>
    /\ returned = NoPlane
    /\ pcd_pc = "create"
    /\ written = [p \in DOMAIN plane.data |-> 0]
    /\ raw = [p \in DOMAIN plane.data |-> 0]

\* "Create quantization matrix" (the if / elif / else on quantization).
PcdCreateMatrix ==
    /\ pcd_pc = "create"
    /\ q_matrix' = CreateQMatrix(pcd_args.quantization, pcd_args.block_size)
    /\ pcd_pc' = "scale"
    /\ UNCHANGED <<channel, pcd_args, y, x, processed, coeffs, returned, written, raw>>
    /\ UNCHANGED appVars

\* "Scale quantization matrix based on compression level", then the entry
\* of the block loops: range(0, height, block_size) is empty for height 0.
PcdScaleMatrix ==
    /\ pcd_pc = "scale"
    /\ q_matrix' = ScaleQMatrix(q_matrix, pcd_args.compression_level)
    /\ pcd_pc' = IF channel.shape[1] > 0 /\ channel.shape[2] > 0 THEN "loop" ELSE "return"
    /\ UNCHANGED <<channel, pcd_args, y, x, processed, coeffs, returned, written, raw>>
    /\ UNCHANGED appVars

\* Block loops that visit only the origins at which a whole block fits, as
\* range(0, height - block_size + 1, block_size) would.
LoopAfterWholeBlocks(by, bx, height, width, step) ==
    IF RangeNext(bx, step) + step <= width
    THEN [y |-> by, x |-> RangeNext(bx, step), pc |-> "loop"]
    ELSE IF RangeNext(by, step) + step <= height
    THEN [y |-> RangeNext(by, step), x |-> 0, pc |-> "loop"]
    ELSE [y |-> by, x |-> bx, pc |-> "return"]

\* Block loops with x in the outer and y in the inner loop.
LoopAfterColumnMajor(by, bx, height, width, step) ==
    IF RangeNext(by, step) < height
    THEN [y |-> RangeNext(by, step), x |-> bx, pc |-> "loop"]
    ELSE IF RangeNext(bx, step) < width
    THEN [y |-> 0, x |-> RangeNext(bx, step), pc |-> "loop"]
    ELSE [y |-> by, x |-> bx, pc |-> "return"]

\* The loop variables after the block at (y, x): the next x of the inner
\* range, else the next y of the outer range with x back at 0, else the end.
LoopAfter(by, bx, height, width, step) ==
    IF RangeNext(bx, step) < width
    THEN [y |-> by, x |-> RangeNext(bx, step), pc |-> "loop"]
    ELSE IF RangeNext(by, step) < height
    THEN [y |-> RangeNext(by, step), x |-> 0, pc |-> "loop"]
    ELSE [y |-> by, x |-> bx, pc |-> "return"]

\* One iteration of the block loops: get the block, subtract 128, cv2.dct,
\* quantize, store the coefficients, dequantize, cv2.idct, add 128, clip and
\* put the block back.  cv2.dct raises for a block with an odd side above 1,
\* which ends the call with nothing returned.
PcdBlock ==
    /\ pcd_pc = "loop"
    /\ LET height == channel.shape[1]
           width  == channel.shape[2]
           n      == pcd_args.block_size
           rows   == Min(n, height - y)
           cols   == Min(n, width - x)
           block  == ShiftedBlock(channel.data, y, x, rows, cols)
           qsub   == SubMatrix(q_matrix, rows, cols)
           next   == LoopAfter(y, x, height, width, n)
       IN  IF DctRaises(rows, cols)
           THEN /\ pcd_pc' = "raised"
                /\ UNCHANGED <<y, x, processed, coeffs, written, raw>>
           ELSE \E dct_block \in DctOutcomes(block) :
                  LET quantized   == [p \in Idx(rows, cols) |-> Quantize(dct_block[p], qsub[p])]
                      dequantized == [p \in Idx(rows, cols) |-> Dequantize(quantized[p], qsub[p])]
                  IN  \E idct_block \in IdctPlus128Outcomes(dequantized) :
                        /\ coeffs' = Append(coeffs, quantized)
                        /\ processed' =
                             [p \in DOMAIN processed |->
                                IF p[1] \in y .. y + rows - 1 /\ p[2] \in x .. x + cols - 1
                                THEN ClipSample(idct_block[<<p[1] - y, p[2] - x>>])
                                ELSE processed[p]]
                        /\ raw' =
                             [p \in DOMAIN raw |->
                                IF p[1] \in y .. y + rows - 1 /\ p[2] \in x .. x + cols - 1
                                THEN idct_block[<<p[1] - y, p[2] - x>>]
                                ELSE raw[p]]
                        /\ written' =
                             [p \in DOMAIN written |->
                                IF p[1] \in y .. y + rows - 1 /\ p[2] \in x .. x + cols - 1
                                THEN written[p] + 1
                                ELSE written[p]]
                        /\ y' = next.y
                        /\ x' = next.x
                        /\ pcd_pc' = next.pc
    /\ UNCHANGED <<channel, pcd_args, q_matrix, returned>>
    /\ UNCHANGED appVars

\* return processed.astype(np.uint8), coeffs
PcdReturn ==
    /\ pcd_pc = "return"
    /\ returned' = [p \in DOMAIN processed |-> AsUint8(processed[p])]
    /\ pcd_pc' = "returned"
    /\ UNCHANGED <<channel, pcd_args, q_matrix, y, x, processed, coeffs, written, raw>>
    /\ UNCHANGED appVars

(***************************************************************************)
(* The application: DCTCompressorApp on the Tk main thread and its worker  *)
(* threads.  An image is [file, shape]; what a run makes of it records the *)
(* run and the image it was made from, not the samples.                    *)
(***************************************************************************)
None == [none |-> TRUE]

\* The files load_image is called with: two images cv2.imread can read and
\* one it cannot (it returns None).  shape is (height, width, 3).
Files ==
    { [name |-> "a.png", readable |-> TRUE, shape |-> <<8, 8, 3>>, kb |-> 3],
      [name |-> "b.png", readable |-> TRUE, shape |-> <<8, 9, 3>>, kb |-> 4],
      [name |-> "bad.txt", readable |-> FALSE, shape |-> <<0, 0, 0>>, kb |-> 1] }

\* The settings files load_settings may find: none, and one whose defaults
\* are outside the slider's 1..100 and outside the combobox's block sizes.
NoSettings == [k \in {} |-> 0]
SettingsFiles ==
    { NoSettings,
      [default_compression |-> 200, default_block_size |-> "6x6"] }

\* int(self.block_size.get().split('x')[0]) for the strings block_size holds.
ParseBlockSize(str) ==
    CASE str = "4x4" -> 4
      [] str = "6x6" -> 6
      [] str = "8x8" -> 8
      [] str = "16x16" -> 16
      [] str = "32x32" -> 32

\* The block loops of process_channel_dct from the block at (by, bx), `count`
\* blocks having been appended: whether cv2.dct raises, and the number of
\* blocks in the archive when it does not.
RECURSIVE PcdLoop(_, _, _, _, _, _)
PcdLoop(by, bx, count, height, width, n) ==
    IF DctRaises(Min(n, height - by), Min(n, width - bx))
    THEN [raised |-> TRUE, blocks |-> count]
    ELSE LET next == LoopAfter(by, bx, height, width, n)
         IN  IF next.pc = "loop"
             THEN PcdLoop(next.y, next.x, count + 1, height, width, n)
             ELSE [raised |-> FALSE, blocks |-> count + 1]

\* The stages of a process_channel_dct call with the matrix built after the
\* blocks.
PcdStagesMatrixLast(result) == [k \in 1 .. result.blocks |-> "codec"] \o <<"matrix">>

\* The stages of a process_channel_dct call that did result.blocks blocks:
\* the quantization matrix is created and scaled, then come the blocks.
PcdStages(result) == <<"matrix">> \o [k \in 1 .. result.blocks |-> "codec"]

\* process_channel_dct with the exception of cv2.dct swallowed: the plane as
\* far as it got is returned.
ProcessChannelSwallowing(shape, n) ==
    [raised |-> FALSE, blocks |-> PcdLoop(0, 0, 0, shape[1], shape[2], n).blocks]

\* process_channel_dct(channel, block_size, ...) for a plane of that shape.
process_channel_dct(shape, n) == PcdLoop(0, 0, 0, shape[1], shape[2], n)

\* The planes of the colour split: cv2.split of the YCrCb image, the one
\* grey plane, or (any other colour space) cv2.split of the image itself.
SplitChannels(image, cs) ==
    LET plane(k) == [of |-> image.file, shape |-> <<image.shape[1], image.shape[2]>>,
                     plane |-> k]
    IN  IF cs = "YCbCr" THEN <<plane("Y"), plane("Cr"), plane("Cb")>>
        ELSE IF cs = "Grayscale" THEN <<plane("gray")>>
        ELSE <<plane("B"), plane("G"), plane("R")>>

\* The ratio with the level on the wrong side: 1 / (1 + levelPercent / 100).
CompressionRatioFalling(percent) == [num |-> 100, den |-> 100 + percent]

\* 1.0 / (1.0 + (100 - self.compression_level.get()) / 100.0) as the
\* fraction num / den, numerator and denominator both taken times 100.
CompressionRatioOf(percent) == [num |-> 100, den |-> 100 + (100 - percent)]

\* The progress value with the channel term counted from 0 instead of 20.
ChannelProgressFromZero(i, len) == (i * 60) \div len

\* 20 + (i+1)*60/len(channels)
ChannelProgress(i, len) == 20 + ((i + 1) * 60) \div len

\* The merge and the conversion back chosen by what the colour-space control
\* holds at that moment instead of the run's own argument.
MergeAndConvertByControl(run, source, planes, cs) ==
    [run |-> run,
     source |-> source,
     merged |-> Len(planes),
     planes |-> planes,
     conversion |-> IF color_space = "YCbCr" THEN "YCrCb2BGR"
                    ELSE IF color_space = "Grayscale" THEN "GRAY2BGR" ELSE "none",
     shape |-> <<planes[1].shape[1], planes[1].shape[2],
                 IF Len(planes) = 1 /\ color_space /= "Grayscale" THEN 1 ELSE 3>>]

\* "Merge channels" and "Convert back to original color space": one plane
\* is the image itself, several are cv2.merge'd; then YCrCb2BGR for
\* "YCbCr", GRAY2BGR for "Grayscale", nothing otherwise.
MergeAndConvert(run, source, planes, cs) ==
    [run |-> run,
     source |-> source,
     merged |-> Len(planes),
     planes |-> planes,
     conversion |-> IF cs = "YCbCr" THEN "YCrCb2BGR"
                    ELSE IF cs = "Grayscale" THEN "GRAY2BGR" ELSE "none",
     shape |-> <<planes[1].shape[1], planes[1].shape[2],
                 IF Len(planes) = 1 /\ cs /= "Grayscale" THEN 1 ELSE 3>>]

\* Whether numpy can subtract arrays of these shapes (each pair of lengths
\* equal, or one of them 1).
Broadcastable(s1, s2) ==
    \A k \in 1 .. 3 : s1[k] = s2[k] \/ s1[k] = 1 \/ s2[k] = 1

\* add_to_recent_files: the list with filename moved or put to the front,
\* cut to 10 entries.
RecentFiles(dict) ==
    IF "recent_files" \in DOMAIN dict THEN dict["recent_files"] ELSE <<>>

RECURSIVE RemoveFirst(_, _)
RemoveFirst(list, e) ==
    IF list = <<>> THEN <<>>
    ELSE IF Head(list) = e THEN Tail(list)
    ELSE <<Head(list)>> \o RemoveFirst(Tail(list), e)

\* add_to_recent_files without the removal of an entry that is already there.
add_to_recent_files_keeping(dict, name) ==
    LET inserted == <<name>> \o RecentFiles(dict)
        kept     == IF Len(inserted) > 10 THEN SubSeq(inserted, 1, 10) ELSE inserted
    IN  [k \in DOMAIN dict \cup {"recent_files"} |->
            IF k = "recent_files" THEN kept ELSE dict[k]]

add_to_recent_files(dict, name) ==
    LET inserted == <<name>> \o RemoveFirst(RecentFiles(dict), name)
        kept     == IF Len(inserted) > 10 THEN SubSeq(inserted, 1, 10) ELSE inserted
    IN  [k \in DOMAIN dict \cup {"recent_files"} |->
            IF k = "recent_files" THEN kept ELSE dict[k]]

\* The state after DCTCompressorApp.__init__ with the given settings file:
\* the fields' initial values, the controls' defaults and then
\* load_default_settings.
AppInit(dict) ==
    /\ settings = dict
    /\ original_image = None
    /\ filename = None
    /\ file_size_before = 0
    /\ processed_image = None
    /\ dct_coefficients = None
    /\ psnr_value = [by |-> 0]
    /\ compression_ratio = [by |-> 0, num |-> 1, den |-> 1]
    /\ compression_level = IF "default_compression" \in DOMAIN dict
                           THEN dict["default_compression"] ELSE 50
    /\ block_size = IF "default_block_size" \in DOMAIN dict
                    THEN dict["default_block_size"] ELSE "8x8"
    /\ color_space = "YCbCr"
    /\ quantization = "Standard JPEG"
    /\ progress_var = 0
    /\ progress_shown = FALSE
    /\ status_message = "Ready"
    /\ lbl_compression = [text |-> "N/A"]
    /\ lbl_psnr = [text |-> "N/A"]
    /\ toolbar_buttons = [b \in {"dct", "save", "compare", "undo", "redo"} |->
                             IF b \in {"undo", "redo"} THEN "disabled" ELSE "normal"]
    /\ history = <<>>
    /\ threads = <<>>
    /\ after_queue = <<>>
    /\ reported = <<>>
    /\ loads = 0
    /\ edits = 0

(***************************************************************************)
(* The main thread: the handlers Tk runs one at a time.                    *)
(***************************************************************************)
\* load_image(filename).  cv2.imread's result is assigned to original_image
\* before it is tested, so a file that cannot be read leaves None there and
\* the except branch only reports it.
load_image(f) ==
    /\ loads < MaxLoads
    /\ loads' = loads + 1
    /\ IF f.readable
       THEN /\ original_image' = [file |-> f.name, shape |-> f.shape]
            /\ filename' = f.name
            /\ file_size_before' = f.kb
            /\ lbl_compression' = [text |-> "N/A"]
            /\ lbl_psnr' = [text |-> "N/A"]
            /\ toolbar_buttons' = [toolbar_buttons EXCEPT !["dct"] = "normal",
                                                          !["save"] = "disabled",
                                                          !["compare"] = "disabled"]
            /\ settings' = add_to_recent_files(settings, f.name)
            /\ status_message' = "Loaded"
       ELSE /\ original_image' = None
            /\ status_message' = "Error loading image"
            /\ UNCHANGED <<filename, file_size_before, lbl_compression, lbl_psnr,
                           toolbar_buttons, settings>>
    /\ UNCHANGED <<processed_image, dct_coefficients, psnr_value, compression_ratio,
                   compression_level, block_size, color_space, quantization,
                   progress_var, progress_shown, history, threads, after_queue,
                   reported, edits>>
    /\ UNCHANGED pcdVars

\* The frame of a new _apply_dct_thread call.  stages is the record of the
\* stages the call has gone through, in the order it went through them.
NewFrame(args) ==
    [pc |-> "start", args |-> args, source |-> None, channels |-> <<>>,
     processed_channels |-> <<>>, dct_coeffs |-> <<>>, mse |-> None,
     failed |-> FALSE, stages |-> <<>>]

\* apply_dct: without an image a warning and nothing else; otherwise read
\* the four controls, show_progress(True) and start the worker thread.
apply_dct ==
    /\ IF original_image = None
       THEN UNCHANGED <<progress_var, progress_shown, status_message, threads, reported>>
       ELSE /\ Len(threads) < MaxRuns
            /\ progress_shown' = TRUE
            /\ progress_var' = 0
            /\ status_message' = "Applying DCT compression..."
            /\ threads' = Append(threads,
                            NewFrame([compression_level |-> compression_level,
                                      block_size |-> ParseBlockSize(block_size),
                                      color_space |-> color_space,
                                      quantization |-> quantization]))
            /\ reported' = Append(reported, <<0>>)
    /\ UNCHANGED <<settings, original_image, filename, file_size_before,
                   processed_image, dct_coefficients, psnr_value, compression_ratio,
                   compression_level, block_size, color_space, quantization,
                   lbl_compression, lbl_psnr, toolbar_buttons, history,
                   after_queue, loads, edits>>
    /\ UNCHANGED pcdVars

\* The user moves the slider (to 10) or picks another entry of one of the
\* comboboxes ("4x4", "Grayscale", "Uniform").
ChangeControl ==
    /\ edits < MaxEdits
    /\ edits' = edits + 1
    /\ \/ /\ compression_level' \in {10} \ {compression_level}
          /\ UNCHANGED <<block_size, color_space, quantization>>
       \/ /\ block_size' \in {"4x4"} \ {block_size}
          /\ UNCHANGED <<compression_level, color_space, quantization>>
       \/ /\ color_space' \in {"Grayscale"} \ {color_space}
          /\ UNCHANGED <<compression_level, block_size, quantization>>
       \/ /\ quantization' \in {"Uniform"} \ {quantization}
          /\ UNCHANGED <<compression_level, block_size, color_space>>
    /\ UNCHANGED <<settings, original_image, filename, file_size_before,
                   processed_image, dct_coefficients, psnr_value, compression_ratio,
                   progress_var, progress_shown, status_message, lbl_compression,
                   lbl_psnr, toolbar_buttons, history, threads, after_queue,
                   reported, loads>>
    /\ UNCHANGED pcdVars

\* add_to_history, as _update_after_dct calls it.
add_to_history_entry ==
    [compression |-> compression_level,
     block_size |-> block_size,
     color_space |-> color_space,
     psnr |-> psnr_value,
     original |-> original_image,
     processed |-> processed_image]

\* Tk runs the oldest after(0, ...) callback: _update_after_dct (labels,
\* buttons, add_to_history), the error box, or show_progress(False).
RunAfterCallback ==
    /\ after_queue /= <<>>
    /\ after_queue' = Tail(after_queue)
    /\ LET cb == Head(after_queue)
       IN  CASE cb = "_update_after_dct" ->
                  /\ lbl_compression' = [percent |-> compression_level]
                  /\ lbl_psnr' = [psnr |-> psnr_value]
                  /\ IF original_image /= None /\ processed_image /= None
                     THEN /\ history' = Append(history, add_to_history_entry)
                          /\ toolbar_buttons' =
                               [toolbar_buttons EXCEPT !["save"] = "normal",
                                                       !["compare"] = "normal",
                                                       !["undo"] = "normal"]
                     ELSE /\ history' = history
                          /\ toolbar_buttons' =
                               [toolbar_buttons EXCEPT !["save"] = "normal",
                                                       !["compare"] = "normal"]
                  /\ UNCHANGED progress_shown
             [] cb = "showerror" ->
                  UNCHANGED <<lbl_compression, lbl_psnr, history, toolbar_buttons,
                              progress_shown>>
             [] cb = "show_progress(False)" ->
                  /\ progress_shown' = FALSE
                  /\ UNCHANGED <<lbl_compression, lbl_psnr, history, toolbar_buttons>>
    /\ UNCHANGED <<settings, original_image, filename, file_size_before,
                   processed_image, dct_coefficients, psnr_value, compression_ratio,
                   compression_level, block_size, color_space, quantization,
                   progress_var, status_message, threads, reported, loads, edits>>
    /\ UNCHANGED pcdVars

\* undo_action without the test that disables the undo button.
undo_action_leaving_button ==
    /\ IF Len(history) > 0
       THEN LET last_state == history[Len(history)]
            IN  /\ history' = SubSeq(history, 1, Len(history) - 1)
                /\ processed_image' = last_state.processed
                /\ lbl_compression' = [percent |-> last_state.compression]
                /\ lbl_psnr' = [psnr |-> last_state.psnr]
                /\ toolbar_buttons' = [toolbar_buttons EXCEPT !["redo"] = "normal"]
       ELSE UNCHANGED <<history, processed_image, lbl_compression, lbl_psnr,
                        toolbar_buttons>>
    /\ UNCHANGED <<settings, original_image, filename, file_size_before,
                   dct_coefficients, psnr_value, compression_ratio,
                   compression_level, block_size, color_space, quantization,
                   progress_var, progress_shown, status_message, threads,
                   after_queue, reported, loads, edits>>
    /\ UNCHANGED pcdVars

\* undo_action: pop the last history entry and make its processed image the
\* current one; nothing with an empty history.
undo_action ==
    /\ IF Len(history) > 0
       THEN LET last_state == history[Len(history)]
            IN  /\ history' = SubSeq(history, 1, Len(history) - 1)
                /\ processed_image' = last_state.processed
                /\ lbl_compression' = [percent |-> last_state.compression]
                /\ lbl_psnr' = [psnr |-> last_state.psnr]
                /\ toolbar_buttons' =
                     [toolbar_buttons EXCEPT
                        !["redo"] = "normal",
                        !["undo"] = IF Len(history) = 1 THEN "disabled" ELSE @]
       ELSE UNCHANGED <<history, processed_image, lbl_compression, lbl_psnr,
                        toolbar_buttons>>
    /\ UNCHANGED <<settings, original_image, filename, file_size_before,
                   dct_coefficients, psnr_value, compression_ratio,
                   compression_level, block_size, color_space, quantization,
                   progress_var, progress_shown, status_message, threads,
                   after_queue, reported, loads, edits>>
    /\ UNCHANGED pcdVars

(***************************************************************************)
(* _apply_dct_thread, run r: one action per access to the state it shares  *)
(* with the main thread and the other workers (the computation between two *)
(* such accesses is local to the thread and goes with the later one).      *)
(***************************************************************************)
\* What no worker thread writes.
mainOnlyVars == <<settings, original_image, filename, file_size_before,
                  compression_level, block_size, color_space, quantization,
                  progress_shown, lbl_compression, lbl_psnr, toolbar_buttons,
                  history, loads, edits>>

At(r, pc) == r \in DOMAIN threads /\ threads[r].pc = pc

\* self.progress_var.set(value) by run r.
SetProgress(r, value) ==
    /\ progress_var' = value
    /\ reported' = [reported EXCEPT ![r] = Append(@, value)]

\* The exception of a statement in the try block: control goes to except.
Raise(r) == threads' = [threads EXCEPT ![r].pc = "except"]

\* self.progress_var.set(10)
ThreadStart(r) ==
    /\ At(r, "start")
    /\ SetProgress(r, 10)
    /\ threads' = [threads EXCEPT ![r].pc = "split"]
    /\ UNCHANGED <<processed_image, dct_coefficients, psnr_value, compression_ratio,
                   status_message, after_queue>>
    /\ UNCHANGED mainOnlyVars
    /\ UNCHANGED pcdVars

\* "Convert color space if needed": reads self.original_image; cv2.cvtColor
\* and cv2.split raise for None.
ThreadSplit(r) ==
    /\ At(r, "split")
    /\ IF original_image = None
       THEN Raise(r)
       ELSE threads' = [threads EXCEPT
                          ![r].pc = "progress20",
                          ![r].source = original_image,
                          ![r].stages = Append(@, "split"),
                          ![r].channels = SplitChannels(original_image,
                                                        threads[r].args.color_space)]
    /\ UNCHANGED <<processed_image, dct_coefficients, psnr_value, compression_ratio,
                   progress_var, status_message, after_queue, reported>>
    /\ UNCHANGED mainOnlyVars
    /\ UNCHANGED pcdVars

\* self.progress_var.set(20)
ThreadProgress20(r) ==
    /\ At(r, "progress20")
    /\ SetProgress(r, 20)
    /\ threads' = [threads EXCEPT ![r].pc = "channel"]
    /\ UNCHANGED <<processed_image, dct_coefficients, psnr_value, compression_ratio,
                   status_message, after_queue>>
    /\ UNCHANGED mainOnlyVars
    /\ UNCHANGED pcdVars

\* One iteration of "Process each channel": process_channel_dct on the next
\* plane, the two appends and the progress value; an exception of
\* process_channel_dct ends the loop.
ThreadChannel(r) ==
    /\ At(r, "channel")
    /\ LET frame  == threads[r]
           i      == Len(frame.processed_channels)
           plane  == frame.channels[i + 1]
           result == process_channel_dct(plane.shape, frame.args.block_size)
       IN  IF result.raised
           THEN /\ threads' = [threads EXCEPT ![r].pc = "except",
                                              ![r].stages = @ \o PcdStages(result)]
                /\ UNCHANGED <<progress_var, reported>>
           ELSE /\ threads' =
                     [threads EXCEPT
                        ![r].processed_channels =
                            Append(@, [of |-> plane.of, shape |-> plane.shape,
                                       plane |-> plane.plane, run |-> r,
                                       blocks |-> result.blocks]),
                        ![r].dct_coeffs = Append(@, result.blocks),
                        ![r].stages = @ \o PcdStages(result),
                        ![r].pc = IF i + 1 = Len(frame.channels)
                                  THEN "set_processed" ELSE "channel"]
                /\ SetProgress(r, ChannelProgress(i, Len(frame.channels)))
    /\ UNCHANGED <<processed_image, dct_coefficients, psnr_value, compression_ratio,
                   status_message, after_queue>>
    /\ UNCHANGED mainOnlyVars
    /\ UNCHANGED pcdVars

\* The merge writing its result into the array original_image refers to.
ThreadSetProcessedInPlace(r) ==
    /\ At(r, "set_processed")
    /\ processed_image' = MergeAndConvert(r, threads[r].source,
                                          threads[r].processed_channels,
                                          threads[r].args.color_space)
    /\ original_image' = [file |-> "processed", shape |-> processed_image'.shape]
    /\ threads' = [threads EXCEPT ![r].pc = "set_coeffs",
                                  ![r].stages = @ \o <<"merge", "convert">>]
    /\ UNCHANGED <<dct_coefficients, psnr_value, compression_ratio, progress_var,
                   status_message, after_queue, reported>>
    /\ UNCHANGED <<settings, filename, file_size_before, compression_level,
                   block_size, color_space, quantization, progress_shown,
                   lbl_compression, lbl_psnr, toolbar_buttons, history, loads, edits>>
    /\ UNCHANGED pcdVars

\* Merge, convert back, and self.processed_image = processed_img
ThreadSetProcessed(r) ==
    /\ At(r, "set_processed")
    /\ processed_image' = MergeAndConvert(r, threads[r].source,
                                          threads[r].processed_channels,
                                          threads[r].args.color_space)
    /\ threads' = [threads EXCEPT ![r].pc = "set_coeffs",
                                  ![r].stages = @ \o <<"merge", "convert">>]
    /\ UNCHANGED <<dct_coefficients, psnr_value, compression_ratio, progress_var,
                   status_message, after_queue, reported>>
    /\ UNCHANGED mainOnlyVars
    /\ UNCHANGED pcdVars

\* self.dct_coefficients = dct_coeffs
ThreadSetCoeffs(r) ==
    /\ At(r, "set_coeffs")
    /\ dct_coefficients' = [run |-> r, blocks |-> threads[r].dct_coeffs]
    /\ threads' = [threads EXCEPT ![r].pc = "mse"]
    /\ UNCHANGED <<processed_image, psnr_value, compression_ratio, progress_var,
                   status_message, after_queue, reported>>
    /\ UNCHANGED mainOnlyVars
    /\ UNCHANGED pcdVars

\* calculate_metrics, the mean squared error: reads self.original_image and
\* self.processed_image as they are now; None has no shape, and arrays of
\* shapes that do not broadcast cannot be subtracted.
ThreadMse(r) ==
    /\ At(r, "mse")
    /\ IF \/ original_image = None
          \/ ~Broadcastable(original_image.shape, processed_image.shape)
       THEN Raise(r)
       ELSE threads' = [threads EXCEPT
                          ![r].pc = "set_psnr",
                          ![r].stages = Append(@, "metrics"),
                          ![r].mse = [original |-> original_image,
                                      processed |-> processed_image]]
    /\ UNCHANGED <<processed_image, dct_coefficients, psnr_value, compression_ratio,
                   progress_var, status_message, after_queue, reported>>
    /\ UNCHANGED mainOnlyVars
    /\ UNCHANGED pcdVars

\* calculate_metrics: self.psnr_value = inf or 20 * log10(255 / sqrt(mse))
ThreadSetPsnr(r) ==
    /\ At(r, "set_psnr")
    /\ psnr_value' = [by |-> r, original |-> threads[r].mse.original,
                      processed |-> threads[r].mse.processed]
    /\ threads' = [threads EXCEPT ![r].pc = "set_ratio"]
    /\ UNCHANGED <<processed_image, dct_coefficients, compression_ratio, progress_var,
                   status_message, after_queue, reported>>
    /\ UNCHANGED mainOnlyVars
    /\ UNCHANGED pcdVars

\* calculate_metrics: self.compression_ratio =
\*   1.0 / (1.0 + (100 - self.compression_level.get()) / 100.0)
\* = 100 / (200 - level), a ZeroDivisionError at level 200.
ThreadSetRatio(r) ==
    /\ At(r, "set_ratio")
    /\ IF compression_level = 200
       THEN /\ Raise(r)
            /\ UNCHANGED compression_ratio
       ELSE /\ compression_ratio' =
                 [by |-> r, num |-> CompressionRatioOf(compression_level).num,
                  den |-> CompressionRatioOf(compression_level).den]
            /\ threads' = [threads EXCEPT ![r].pc = "after"]
    /\ UNCHANGED <<processed_image, dct_coefficients, psnr_value, progress_var,
                   status_message, after_queue, reported>>
    /\ UNCHANGED mainOnlyVars
    /\ UNCHANGED pcdVars

\* self.root.after(0, self._update_after_dct) and the status message.
ThreadAfter(r) ==
    /\ At(r, "after")
    /\ after_queue' = Append(after_queue, "_update_after_dct")
    /\ status_message' = "Processing completed"
    /\ threads' = [threads EXCEPT ![r].pc = "finally"]
    /\ UNCHANGED <<processed_image, dct_coefficients, psnr_value, compression_ratio,
                   progress_var, reported>>
    /\ UNCHANGED mainOnlyVars
    /\ UNCHANGED pcdVars

\* except Exception: the error box is scheduled, "Processing failed".
ThreadExcept(r) ==
    /\ At(r, "except")
    /\ after_queue' = Append(after_queue, "showerror")
    /\ status_message' = "Processing failed"
    /\ threads' = [threads EXCEPT ![r].pc = "finally", ![r].failed = TRUE]
    /\ UNCHANGED <<processed_image, dct_coefficients, psnr_value, compression_ratio,
                   progress_var, reported>>
    /\ UNCHANGED mainOnlyVars
    /\ UNCHANGED pcdVars

\* A finally block that schedules nothing.
ThreadFinallySilent(r) ==
    /\ At(r, "finally")
    /\ threads' = [threads EXCEPT ![r].pc = "done"]
    /\ UNCHANGED <<processed_image, dct_coefficients, psnr_value, compression_ratio,
                   progress_var, status_message, after_queue, reported>>
    /\ UNCHANGED mainOnlyVars
    /\ UNCHANGED pcdVars

\* finally: self.root.after(0, lambda: self.show_progress(False))
ThreadFinally(r) ==
    /\ At(r, "finally")
    /\ after_queue' = Append(after_queue, "show_progress(False)")
    /\ threads' = [threads EXCEPT ![r].pc = "done"]
    /\ UNCHANGED <<processed_image, dct_coefficients, psnr_value, compression_ratio,
                   progress_var, status_message, reported>>
    /\ UNCHANGED mainOnlyVars
    /\ UNCHANGED pcdVars

(***************************************************************************)
(* Spec: the application from its construction on, with any of the         *)
(* settings files.                                                         *)
(***************************************************************************)
\* The codec call frame is not part of the application's runs: it stays as
\* at the entry of a call on a 1 x 1 plane.
PcdIdle ==
    PcdEntry(ConstPlane(1, 1, 128),
             [block_size |-> 8, compression_level |-> 50,
              quantization |-> "Standard JPEG"])

Init ==
    /\ \E dict \in SettingsFiles : AppInit(dict)
    /\ PcdIdle

Next ==
    \/ \E f \in Files : load_image(f)
    \/ apply_dct
    \/ ChangeControl
    \/ RunAfterCallback
    \/ undo_action
    \/ \E r \in 1 .. MaxRuns : ThreadStart(r)
    \/ \E r \in 1 .. MaxRuns : ThreadSplit(r)
    \/ \E r \in 1 .. MaxRuns : ThreadProgress20(r)
    \/ \E r \in 1 .. MaxRuns : ThreadChannel(r)
    \/ \E r \in 1 .. MaxRuns : ThreadSetProcessed(r)
    \/ \E r \in 1 .. MaxRuns : ThreadSetCoeffs(r)
    \/ \E r \in 1 .. MaxRuns : ThreadMse(r)
    \/ \E r \in 1 .. MaxRuns : ThreadSetPsnr(r)
    \/ \E r \in 1 .. MaxRuns : ThreadSetRatio(r)
    \/ \E r \in 1 .. MaxRuns : ThreadAfter(r)
    \/ \E r \in 1 .. MaxRuns : ThreadExcept(r)
    \/ \E r \in 1 .. MaxRuns : ThreadFinally(r)

Spec == Init /\ [][Next]_vars


(***************************************************************************)
(* SpecLive: the runs with the scheduling the runtime gives.  A worker     *)
(* thread that can take its next step is not held back for ever by the     *)
(* operating system, and Tk's main loop runs a pending after(0, ...)       *)
(* callback; the user's handlers need never happen.  Of these the          *)
(* specification has the two that decide how a run goes, load_image and    *)
(* apply_dct, with either settings file.                                   *)
(***************************************************************************)
\* The next step of _apply_dct_thread, run r.
WorkerNext(r) ==
    \/ ThreadStart(r)
    \/ ThreadSplit(r)
    \/ ThreadProgress20(r)
    \/ ThreadChannel(r)
    \/ ThreadSetProcessed(r)
    \/ ThreadSetCoeffs(r)
    \/ ThreadMse(r)
    \/ ThreadSetPsnr(r)
    \/ ThreadSetRatio(r)
    \/ ThreadAfter(r)
    \/ ThreadExcept(r)
    \/ ThreadFinally(r)

Fairness ==
    /\ \A r \in 1 .. MaxRuns : WF_vars(WorkerNext(r))
    /\ WF_vars(RunAfterCallback)

NextLive ==
    \/ \E f \in Files : load_image(f)
    \/ apply_dct
    \/ RunAfterCallback
    \/ \E r \in 1 .. MaxRuns : WorkerNext(r)

SpecLive == Init /\ [][NextLive]_vars /\ Fairness


(***************************************************************************)
(* SpecReload: runs while the user loads one image after another of the    *)
(* same size, or a file that cannot be read.                               *)
(***************************************************************************)
ReloadFiles ==
    { [name |-> "a.png", readable |-> TRUE, shape |-> <<8, 8, 3>>, kb |-> 3],
      [name |-> "c.png", readable |-> TRUE, shape |-> <<8, 8, 3>>, kb |-> 5],
      [name |-> "bad.txt", readable |-> FALSE, shape |-> <<0, 0, 0>>, kb |-> 1] }

InitReload ==
    /\ AppInit(NoSettings)
    /\ PcdIdle

NextReload ==
    \/ \E f \in ReloadFiles : load_image(f)
    \/ apply_dct
    \/ RunAfterCallback
    \/ \E r \in 1 .. MaxRuns : WorkerNext(r)

SpecReload == InitReload /\ [][NextReload]_vars

(***************************************************************************)
(* SpecCodec: process_channel_dct on every plane of up to MaxDim x MaxDim  *)
(* samples and on one of 8 x 8, every supported block size and every       *)
(* policy.                                                                 *)
(***************************************************************************)
\* Compression levels in percent: two values of the slider and one that a
\* settings file can hold, which makes the scale factor negative.
CodecLevels == {10, 100, 200}

\* The planes: all of up to MaxDim x MaxDim samples that are all mid-grey or
\* all white, and the mid-grey plane of 8 x 8 samples.
CodecPlanes ==
    {ConstPlane(height, width, v) :
        height \in 1 .. MaxDim, width \in 1 .. MaxDim, v \in {128, 255}}
    \cup {ConstPlane(8, 8, 128)}

InitCodec ==
    \E plane \in CodecPlanes,
       n \in BlockSizes, level \in CodecLevels, policy \in Quantizations :
        /\ PcdEntry(plane,
                    [block_size |-> n, compression_level |-> level, quantization |-> policy])
        /\ AppInit(NoSettings)

NextCodec ==
    \/ PcdCreateMatrix
    \/ PcdScaleMatrix
    \/ PcdBlock
    \/ PcdReturn

SpecCodec == InitCodec /\ [][NextCodec]_vars


(***************************************************************************)
(* SpecMatrix: the two matrix steps of process_channel_dct for every       *)
(* policy, every supported size and every level from 0 to MaxLevel         *)
(* percent (the slider gives 1..100, a settings file anything).            *)
(***************************************************************************)
InitMatrix ==
    \E n \in BlockSizes, level \in 0 .. MaxLevel, policy \in Quantizations :
        /\ PcdEntry(ConstPlane(1, 1, 128),
                    [block_size |-> n, compression_level |-> level, quantization |-> policy])
        /\ AppInit(NoSettings)

NextMatrix ==
    \/ PcdCreateMatrix
    \/ PcdScaleMatrix

SpecMatrix == InitMatrix /\ [][NextMatrix]_vars

(***************************************************************************)
(* SpecMetrics: calculate_metrics on images given by their samples.  Both  *)
(* arrays are np.uint8 of shape (1, 1, 3), so the colour branch is taken.  *)
(***************************************************************************)
SampleValues == {0, 3, 16, 255}

MetricsLevels == {50, 200}

Samples == [1 .. 3 -> SampleValues]

\* The sum of the entries of a sequence of numbers.
RECURSIVE SumSeq(_)
SumSeq(seq) == IF seq = <<>> THEN 0 ELSE Head(seq) + SumSeq(Tail(seq))

\* (self.original_image - self.processed_image) ** 2 on np.uint8 arrays: the
\* difference and the square are np.uint8 again, each reduced modulo 256.
SquaredDiffUint8(a, b) ==
    [k \in DOMAIN a |-> (((a[k] - b[k]) % 256) * ((a[k] - b[k]) % 256)) % 256]

\* np.mean(...) as the fraction <<sum, count>>.
MseUint8(a, b) == <<SumSeq(SquaredDiffUint8(a, b)), Len(a)>>

\* calculate_metrics, called by the worker of run 1, with the arrays the two
\* fields hold: psnr_value is
\* float('inf') for mse == 0 and otherwise a function of mse alone; then the
\* compression ratio, whose division raises at level 200 with psnr_value
\* already written.
calculate_metrics ==
    /\ psnr_value = [by |-> 0]
    /\ original_image /= None
    /\ processed_image /= None
    /\ LET mse == MseUint8(original_image.data, processed_image.data)
       IN  psnr_value' = [by |-> 1, mse |-> mse, inf |-> mse[1] = 0]
    /\ compression_ratio' =
         IF compression_level = 200
         THEN compression_ratio
         ELSE [by |-> 1,
               num |-> CompressionRatioOf(compression_level).num,
               den |-> CompressionRatioOf(compression_level).den]
    /\ UNCHANGED <<settings, original_image, filename, file_size_before,
                   processed_image, dct_coefficients, compression_level, block_size,
                   color_space, quantization, progress_var, progress_shown,
                   status_message, lbl_compression, lbl_psnr, toolbar_buttons,
                   history, threads, after_queue, reported, loads, edits>>
    /\ UNCHANGED pcdVars

\* The state calculate_metrics is called in, the worker having assigned the
\* processed image and the coefficients.
MetricsEntry(a, b, level) ==
    /\ original_image = [file |-> "a.png", shape |-> <<1, 1, 3>>, data |-> a]
    /\ processed_image = [run |-> 1, shape |-> <<1, 1, 3>>, data |-> b]
    /\ compression_level = level
    /\ settings = NoSettings
    /\ filename = "a.png"
    /\ file_size_before = 1
    /\ dct_coefficients = [run |-> 1, blocks |-> <<1, 1, 1>>]
    /\ psnr_value = [by |-> 0]
    /\ compression_ratio = [by |-> 0, num |-> 1, den |-> 1]
    /\ block_size = "8x8"
    /\ color_space = "YCbCr"
    /\ quantization = "Standard JPEG"
    /\ progress_var = 80
    /\ progress_shown = TRUE
    /\ status_message = "Applying DCT compression..."
    /\ lbl_compression = [text |-> "N/A"]
    /\ lbl_psnr = [text |-> "N/A"]
    /\ toolbar_buttons = [b2 \in {"dct", "save", "compare", "undo", "redo"} |->
                            IF b2 = "dct" THEN "normal" ELSE "disabled"]
    /\ history = <<>>
    /\ threads = <<>>
    /\ after_queue = <<>>
    /\ reported = <<>>
    /\ loads = 1
    /\ edits = 0
    /\ PcdIdle

InitMetrics ==
    \E a \in Samples, b \in Samples, level \in MetricsLevels : MetricsEntry(a, b, level)

NextMetrics == calculate_metrics

SpecMetrics == InitMetrics /\ [][NextMetrics]_vars

(***************************************************************************)
(* SpecRatio: calculate_metrics at every slider value, and at the values   *)
(* just outside the slider that a settings file can put there.             *)
(***************************************************************************)
InitRatio ==
    \E level \in 0 .. MaxLevel, b \in {<<0, 0, 0>>, <<3, 0, 255>>} :
        MetricsEntry(<<0, 0, 0>>, b, level)

NextRatio == calculate_metrics

SpecRatio == InitRatio /\ [][NextRatio]_vars

(***************************************************************************)
(* SpecRecent: add_to_recent_files called again and again, the list being  *)
(* empty at first.  There is one path more than the list may keep.         *)
(***************************************************************************)
RecentPaths ==
    <<"p01", "p02", "p03", "p04", "p05", "p06", "p07", "p08", "p09", "p10", "p11">>

InList(list, e) == \E k \in DOMAIN list : list[k] = e

\* The paths a call is made with: the first path that is not in the list,
\* and the paths at the front, second and at the end of the list.
PathsToAdd(list) ==
    {RecentPaths[CHOOSE i \in DOMAIN RecentPaths :
                    /\ ~InList(list, RecentPaths[i])
                    /\ \A j \in 1 .. i - 1 : InList(list, RecentPaths[j])]}
    \cup {list[k] : k \in {1, 2, Len(list)} \cap DOMAIN list}

\* self.add_to_recent_files(filename), filename holding the argument.
AddRecentFile ==
    /\ loads < MaxAdds
    /\ loads' = loads + 1
    /\ \E name \in PathsToAdd(RecentFiles(settings)) :
          /\ filename' = name
          /\ settings' = add_to_recent_files(settings, name)
    /\ UNCHANGED <<original_image, file_size_before, processed_image,
                   dct_coefficients, psnr_value, compression_ratio,
                   compression_level, block_size, color_space, quantization,
                   progress_var, progress_shown, status_message, lbl_compression,
                   lbl_psnr, toolbar_buttons, history, threads, after_queue,
                   reported, edits>>
    /\ UNCHANGED pcdVars

InitRecent ==
    /\ AppInit(NoSettings)
    /\ PcdIdle

NextRecent == AddRecentFile

SpecRecent == InitRecent /\ [][NextRecent]_vars


(***************************************************************************)
(* SpecRoundTrip: process_channel_dct on planes of 4 x 4 samples with the  *)
(* transform computed, not chosen.  The orthonormal 4-point DCT-II that    *)
(* cv2.dct applies along each axis has the basis 0.5, 0.653281 and         *)
(* 0.270598; it is kept to four decimals, and so is every transformed      *)
(* value.  The planes lie within 3 of mid-grey, which keeps every product  *)
(* below 2^31 and the error of the arithmetic below 0.01; each of them is  *)
(* either all mid-grey or such that, at the levels drawn, no coefficient   *)
(* is within 0.02 of a rounding tie and no restored sample within 0.02 of  *)
(* a whole number, so that neither four decimals nor float32 can change a  *)
(* rounding.                                                               *)
(***************************************************************************)
\* The fixed point: a transformed value v is the integer v * DctUnit.
DctUnit == 10000

\* sqrt(a(u) / 4) * cos(pi * (2 * n + 1) * u / 8) in 1/DctUnit, with
\* a(0) = 1 and a(u) = 2 otherwise: row u + 1, column n + 1.
Dct4Table ==
    << <<5000, 5000, 5000, 5000>>,
       <<6533, 2706, 0 - 2706, 0 - 6533>>,
       <<5000, 0 - 5000, 0 - 5000, 5000>>,
       <<2706, 0 - 6533, 6533, 0 - 2706>> >>

Dct4Basis(u, n) == Dct4Table[u + 1][n + 1]

\* cv2.dct(block) for a block of 4 x 4 whole samples: along the rows, then
\* along the columns.  The coefficients are in 1/DctUnit.
Dct4(block) ==
    LET rowsDone == [p \in Idx(4, 4) |->
                       Dct4Basis(p[2], 0) * block[<<p[1], 0>>]
                     + Dct4Basis(p[2], 1) * block[<<p[1], 1>>]
                     + Dct4Basis(p[2], 2) * block[<<p[1], 2>>]
                     + Dct4Basis(p[2], 3) * block[<<p[1], 3>>]]
    IN  [p \in Idx(4, 4) |->
           (  Dct4Basis(p[1], 0) * rowsDone[<<0, p[2]>>]
            + Dct4Basis(p[1], 1) * rowsDone[<<1, p[2]>>]
            + Dct4Basis(p[1], 2) * rowsDone[<<2, p[2]>>]
            + Dct4Basis(p[1], 3) * rowsDone[<<3, p[2]>>]) \div DctUnit]

\* np.round(c / q) for a coefficient c in 1/DctUnit and a step q /= 0 in
\* 1/QUnit: the quotient is c * QUnit / (q * DctUnit), reduced by 80.
QuantizeFixed(c, q) ==
    IF q > 0 THEN RoundHalfEven(c * (QUnit \div 80), q * (DctUnit \div 80))
    ELSE RoundHalfEven((0 - c) * (QUnit \div 80), (0 - q) * (DctUnit \div 80))

\* cv2.idct(dequantized) for 4 x 4 values in 1/QUnit: the transposed basis
\* along the columns, then along the rows.  The samples are in 1/DctUnit.
Idct4(dequantized) ==
    LET colsDone == [p \in Idx(4, 4) |->
                       (  Dct4Basis(0, p[1]) * dequantized[<<0, p[2]>>]
                        + Dct4Basis(1, p[1]) * dequantized[<<1, p[2]>>]
                        + Dct4Basis(2, p[1]) * dequantized[<<2, p[2]>>]
                        + Dct4Basis(3, p[1]) * dequantized[<<3, p[2]>>]) \div QUnit]
    IN  [p \in Idx(4, 4) |->
           (  Dct4Basis(0, p[2]) * colsDone[<<p[1], 0>>]
            + Dct4Basis(1, p[2]) * colsDone[<<p[1], 1>>]
            + Dct4Basis(2, p[2]) * colsDone[<<p[1], 2>>]
            + Dct4Basis(3, p[2]) * colsDone[<<p[1], 3>>]) \div DctUnit]

\* np.clip(idct_block, 0, 255) on one sample in 1/DctUnit.
ClipSampleFixed(v) == Clip(v, 0, 255 * DctUnit)

\* .astype(np.uint8) of one float32 sample in 1/DctUnit: the fraction is
\* dropped, not rounded.
AsUint8Truncating(v) == (v \div DctUnit) % 256

\* One iteration of the block loops on a plane of 4 x 4 samples: the block
\* is the whole plane whatever the block size, and the steps are the 4 x 4
\* corner of the matrix.
PcdBlockFixed ==
    /\ pcd_pc = "loop"
    /\ channel.shape = <<4, 4>>
    /\ LET n           == pcd_args.block_size
           block       == ShiftedBlock(channel.data, y, x, 4, 4)
           qsub        == SubMatrix(q_matrix, 4, 4)
           dct_block   == Dct4(block)
           quantized   == [p \in Idx(4, 4) |-> QuantizeFixed(dct_block[p], qsub[p])]
           dequantized == [p \in Idx(4, 4) |-> Dequantize(quantized[p], qsub[p])]
           idct_block  == [p \in Idx(4, 4) |-> Idct4(dequantized)[p] + 128 * DctUnit]
           next        == LoopAfter(y, x, 4, 4, n)
       IN  /\ coeffs' = Append(coeffs, quantized)
           /\ processed' = [p \in DOMAIN processed |-> ClipSampleFixed(idct_block[p])]
           /\ raw' = idct_block
           /\ written' = [p \in DOMAIN written |-> written[p] + 1]
           /\ y' = next.y
           /\ x' = next.x
           /\ pcd_pc' = next.pc
    /\ UNCHANGED <<channel, pcd_args, q_matrix, returned>>
    /\ UNCHANGED appVars

\* return processed.astype(np.uint8), coeffs
PcdReturnFixed ==
    /\ pcd_pc = "return"
    /\ returned' = [p \in DOMAIN processed |-> AsUint8Truncating(processed[p])]
    /\ pcd_pc' = "returned"
    /\ UNCHANGED <<channel, pcd_args, q_matrix, y, x, processed, coeffs, written, raw>>
    /\ UNCHANGED appVars

\* The plane of 4 x 4 samples with the given rows.
Plane4(rows) ==
    [shape |-> <<4, 4>>, data |-> [p \in Idx(4, 4) |-> rows[p[1] + 1][p[2] + 1]]]

\* A patch of fine texture around mid-grey.
TexturePlane ==
    Plane4(<< <<131, 128, 131, 129>>,
              <<128, 127, 129, 125>>,
              <<128, 127, 125, 131>>,
              <<130, 127, 126, 127>> >>)

RoundTripPlanes ==
    {ConstPlane(4, 4, 128),
     TexturePlane,
     Plane4(<< <<128, 129, 128, 129>>, <<129, 129, 128, 128>>,
               <<128, 129, 129, 129>>, <<128, 129, 129, 128>> >>),
     Plane4(<< <<128, 128, 128, 126>>, <<126, 126, 128, 130>>,
               <<128, 128, 128, 130>>, <<126, 128, 128, 128>> >>),
     Plane4(<< <<127, 127, 127, 129>>, <<127, 127, 129, 127>>,
               <<127, 127, 127, 127>>, <<127, 129, 129, 127>> >>)}

\* Compression levels in percent: the two ends of the slider's useful range.
RoundTripLevels == {10, 100}

InitRoundTrip ==
    \E plane \in RoundTripPlanes, n \in BlockSizes, level \in RoundTripLevels :
        /\ PcdEntry(plane,
                    [block_size |-> n, compression_level |-> level, quantization |-> "Uniform"])
        /\ AppInit(NoSettings)

NextRoundTrip ==
    \/ PcdCreateMatrix
    \/ PcdScaleMatrix
    \/ PcdBlockFixed
    \/ PcdReturnFixed

SpecRoundTrip == InitRoundTrip /\ [][NextRoundTrip]_vars

(***************************************************************************)
(* Claims about process_channel_dct (SpecCodec).                           *)
(***************************************************************************)
CeilDiv(a, b) == (a + b - 1) \div b

PcdEnded == pcd_pc \in {"returned", "raised"}

\* C1 (the claim as stated): once process_channel_dct has ended, whatever
\* the plane's height and width and the block size, every pixel of the
\* reconstructed plane has been written exactly once.
C1_CoverageEveryPlane ==
    PcdEnded => \A p \in DOMAIN written : written[p] = 1

\* C2: when process_channel_dct has returned, the channel's coefficient
\* archive holds exactly ceil(height / N) * ceil(width / N) quantized blocks.
C2_ArchiveBlockCount ==
    pcd_pc = "returned" =>
        Len(coeffs) = CeilDiv(channel.shape[1], pcd_args.block_size)
                      * CeilDiv(channel.shape[2], pcd_args.block_size)

\* C2's case: a call that returned after several blocks, the last block row
\* and block column being partial.
C2_Witness ==
    /\ pcd_pc = "returned"
    /\ Len(coeffs) = 4
    /\ channel.shape[1] % pcd_args.block_size /= 0
    /\ channel.shape[2] % pcd_args.block_size /= 0

\* The 8-bit sample that clamping (not wrapping) makes of a float sample.
Clamped(v) == IF v < 0 THEN 0 ELSE IF v > 255 THEN 255 ELSE v

\* C10: every sample written into the reconstructed plane lies in [0,255]
\* and is the clamped inverse transform + 128, and so does and is every
\* sample of the 8-bit plane the call returns.
C10_SamplesClamped ==
    \A p \in DOMAIN written :
        /\ written[p] > 0 =>
              processed[p] \in 0 .. 255 /\ processed[p] = Clamped(raw[p])
        /\ pcd_pc = "returned" =>
              returned[p] \in 0 .. 255 /\ returned[p] = Clamped(raw[p])

\* C10's case: a returned plane holding a sample whose inverse transform
\* + 128 was below 0 and one whose was above 255.
C10_Witness ==
    /\ pcd_pc = "returned"
    /\ \E p \in DOMAIN raw : raw[p] < 0 /\ returned[p] = 0
    /\ \E p \in DOMAIN raw : raw[p] > 255 /\ returned[p] = 255


(***************************************************************************)
(* Claims about the quantization matrix (SpecMatrix).                      *)
(***************************************************************************)
\* C9: for every policy and every supported size the matrix built has
\* size x size entries that are all >= 1, and for every level in (0,1]
\* (1..100 percent) the entries are still all >= 1 after the scale step.
C9_MatrixEntriesAtLeastOne ==
    /\ pcd_pc = "scale" =>
          /\ DOMAIN q_matrix = Idx(pcd_args.block_size, pcd_args.block_size)
          /\ \A p \in DOMAIN q_matrix : q_matrix[p] >= 1 * QUnit
    /\ pcd_pc = "loop" /\ pcd_args.compression_level \in 1 .. 100 =>
          /\ DOMAIN q_matrix = Idx(pcd_args.block_size, pcd_args.block_size)
          /\ \A p \in DOMAIN q_matrix : q_matrix[p] >= 1 * QUnit

\* C9's case: a matrix scaled at a level in (0,1) whose smallest entry was
\* exactly 1 before the scale step.
C9_Witness ==
    /\ pcd_pc = "loop"
    /\ pcd_args.compression_level \in 1 .. 99
    /\ pcd_args.quantization = "Custom"
    /\ q_matrix[<<0, 0>>] = ScaleTenths(pcd_args.compression_level) * (QUnit \div 10)

(***************************************************************************)
(* Claims about the application's runs (Spec).                             *)
(***************************************************************************)
Active(r) == threads[r].pc /= "done"

Succeeded(r) == threads[r].pc = "done" /\ ~threads[r].failed

\* The run a value of processed_image or dct_coefficients was made by (0 for
\* the None of construction).
RunOf(v) == IF v = None THEN 0 ELSE v.run

\* C3 (the claim as stated): at most one run is active at any time, a run
\* being active from the apply_dct that starts its worker thread until
\* _apply_dct_thread has left its finally block.
C3_AtMostOneActiveRun ==
    Cardinality({r \in DOMAIN threads : Active(r)}) <= 1

\* C4 (the claim as stated): a run that failed has left processed_image,
\* dct_coefficients, psnr_value and compression_ratio as they were before
\* it started, so none of the four holds a value that run wrote; and where
\* there was only one run and it succeeded, all four were written by it as
\* long as no undo has replaced the image.
C4_RunAllOrNothing ==
    /\ \A r \in DOMAIN threads :
         threads[r].failed =>
            /\ RunOf(processed_image) /= r
            /\ RunOf(dct_coefficients) /= r
            /\ psnr_value.by /= r
            /\ compression_ratio.by /= r
    /\ (Len(threads) = 1 /\ Succeeded(1) /\ toolbar_buttons["redo"] = "disabled") =>
            /\ RunOf(processed_image) = 1
            /\ RunOf(dct_coefficients) = 1
            /\ psnr_value.by = 1
            /\ compression_ratio.by = 1

\* C5 (the claim as stated): no worker thread is ever started with a
\* compression level outside 1..100, a block size outside {4, 8, 16, 32}, an
\* unknown colour model or an unknown quantization policy.
C5_InvalidParametersRejected ==
    \A r \in DOMAIN threads :
        /\ threads[r].args.compression_level \in 1 .. 100
        /\ threads[r].args.block_size \in BlockSizes
        /\ threads[r].args.color_space \in ColorSpaces
        /\ threads[r].args.quantization \in Quantizations

\* C6: the progress values of one run, from the 0 of show_progress(True) to
\* the last progress_var.set of its worker thread, never decrease and all
\* lie in 0..100, whether the run has one plane or three.
C6_ProgressMonotoneInRange ==
    \A r \in DOMAIN reported :
        /\ \A k \in DOMAIN reported[r] : reported[r][k] \in 0 .. 100
        /\ \A k \in 1 .. Len(reported[r]) - 1 : reported[r][k] <= reported[r][k + 1]

\* C6's case: two runs that went through all their planes and succeeded, one
\* of a single plane and one of three planes.
C6_Witness ==
    \E r1, r3 \in DOMAIN threads :
        /\ Succeeded(r1) /\ Len(threads[r1].channels) = 1
        /\ reported[r1] = <<0, 10, 20, 80>>
        /\ Succeeded(r3) /\ Len(threads[r3].channels) = 3
        /\ reported[r3] = <<0, 10, 20, 40, 60, 80>>

\* C7 (the claim as stated): the last progress value of every run that
\* succeeded is 100, the full scale of the progress bar.
C7_LastProgressIsFullScale ==
    \A r \in DOMAIN threads :
        Succeeded(r) => reported[r][Len(reported[r])] = 100

(***************************************************************************)
(* Claims about calculate_metrics (SpecMetrics).                           *)
(***************************************************************************)
\* The sum over all samples of the integer (a[k] - b[k])^2.
TrueSquaredError(a, b) ==
    SumSeq([k \in DOMAIN a |-> (a[k] - b[k]) * (a[k] - b[k])])

\* C8 (the claim as stated): the mean squared error calculate_metrics uses
\* is the mean of the integer squares of the sample differences, and it is
\* 0 (PSNR infinite) exactly when the two images agree in every sample.
C8_MseIsTrueMean ==
    "mse" \in DOMAIN psnr_value =>
        /\ psnr_value.mse =
             <<TrueSquaredError(original_image.data, processed_image.data), 3>>
        /\ psnr_value.inf <=> (original_image.data = processed_image.data)

(***************************************************************************)
(* Claims about the compression ratio (SpecRatio).                         *)
(***************************************************************************)
\* Whether the fraction f is less than the fraction g (denominators > 0).
FracLess(f, g) == f.num * g.den < g.num * f.den

\* C11: for every levelPercent in 1..100 the ratio calculate_metrics stores
\* equals 100 / (200 - levelPercent) = 1 / (1 + (100 - levelPercent) / 100);
\* it is greater than the ratio of every smaller levelPercent, it is 1 at
\* levelPercent 100, and the ratio of 10 is less than the ratio of 90.
C11_RatioFormula ==
    (compression_ratio.by /= 0 /\ compression_level \in 1 .. 100) =>
        /\ compression_ratio.den > 0
        /\ compression_ratio.num * (200 - compression_level) = 100 * compression_ratio.den
        /\ \A lower \in 1 .. 100 :
              lower < compression_level =>
                 FracLess(CompressionRatioOf(lower), compression_ratio)
        /\ compression_level = 100 => compression_ratio.num = compression_ratio.den
        /\ FracLess(CompressionRatioOf(10), CompressionRatioOf(90))

\* C11's case: calculate_metrics has stored the ratio of levelPercent 90
\* (100 / 110), as it has those of all other slider values.
C11_Witness ==
    /\ compression_ratio.by /= 0
    /\ compression_level = 90
    /\ compression_ratio.num = 100
    /\ compression_ratio.den = 110

(***************************************************************************)
(* Further claims about the application's runs (Spec).                     *)
(***************************************************************************)
\* C12 (the claim as stated): the ratio a run stores is the ratio of the
\* level that apply_dct captured for that run and that scaled its
\* quantization matrix, whatever happens to the slider during the run.
C12_LevelScalesConsistent ==
    \A r \in DOMAIN threads :
        compression_ratio.by = r =>
            compression_ratio.den =
                CompressionRatioOf(threads[r].args.compression_level).den

\* Whether all blocks of a processed plane were transformed and put back,
\* the run's block size being n.
CompletePlane(plane, n) ==
    plane.blocks = CeilDiv(plane.shape[1], n) * CeilDiv(plane.shape[2], n)

\* Whether run r ended before all planes of its split were processed.
StoppedEarly(r) ==
    /\ threads[r].failed
    /\ \/ threads[r].channels = <<>>
       \/ Len(threads[r].processed_channels) < Len(threads[r].channels)

\* C13: whatever processed_image holds was merged from all planes of one
\* run's split, each processed by that run block by block to the end; and
\* a run that stopped in or between planes has assigned nothing to
\* processed_image, which is still what an earlier run made.
C13_NoPartialResult ==
    /\ processed_image /= None =>
          LET r == processed_image.run
          IN  /\ r \in DOMAIN threads
              /\ Len(processed_image.planes) = Len(threads[r].channels)
              /\ \A k \in DOMAIN processed_image.planes :
                    /\ processed_image.planes[k].run = r
                    /\ processed_image.planes[k].of = processed_image.source.file
                    /\ processed_image.planes[k].plane = threads[r].channels[k].plane
                    /\ CompletePlane(processed_image.planes[k],
                                     threads[r].args.block_size)
    /\ \A r \in DOMAIN threads : StoppedEarly(r) => RunOf(processed_image) /= r

\* C13's case: a run that stopped inside a plane (cv2.dct raised on an edge
\* block) while processed_image holds the complete output of another run.
C13_Witness ==
    \E r \in DOMAIN threads :
        /\ StoppedEarly(r)
        /\ threads[r].channels /= <<>>
        /\ threads[r].pc = "done"
        /\ processed_image /= None
        /\ processed_image.run /= r

\* The number of planes of a colour model, and the conversion that leads
\* back from it to BGR.
PlaneCount(cs) == IF cs = "Grayscale" THEN 1 ELSE 3

ConversionBack(cs) ==
    IF cs = "YCbCr" THEN "YCrCb2BGR" ELSE IF cs = "Grayscale" THEN "GRAY2BGR" ELSE "none"

\* C14: the split of a run yields 3 planes for RGB and YCbCr and 1 for
\* Grayscale, no more planes are processed than were split, and what
\* processed_image holds was merged from as many planes as its run split
\* and converted back by the colour model that chose the split.
C14_PlaneCountsConsistent ==
    /\ \A r \in DOMAIN threads :
          /\ threads[r].channels /= <<>> =>
                Len(threads[r].channels) = PlaneCount(threads[r].args.color_space)
          /\ Len(threads[r].processed_channels) <= Len(threads[r].channels)
          /\ threads[r].pc \in {"set_processed", "set_coeffs", "mse", "set_psnr",
                                "set_ratio", "after"} =>
                Len(threads[r].processed_channels) = Len(threads[r].channels)
    /\ processed_image /= None =>
          LET cs == threads[processed_image.run].args.color_space
          IN  /\ processed_image.merged = PlaneCount(cs)
              /\ processed_image.merged = Len(threads[processed_image.run].channels)
              /\ processed_image.conversion = ConversionBack(cs)
              /\ processed_image.shape[3] = 3

\* C14's case: a run of one plane and a run of three planes have both
\* merged, and processed_image is the one merged from the single plane.
C14_Witness ==
    /\ processed_image /= None
    /\ processed_image.merged = 1
    /\ processed_image.conversion = "GRAY2BGR"
    /\ \E r \in DOMAIN threads :
          /\ Len(threads[r].processed_channels) = 3
          /\ threads[r].pc = "done"
          /\ ~threads[r].failed

\* A step that is a load_image call whose file could not be read.
FailedLoadStep ==
    /\ loads' = loads + 1
    /\ status_message' = "Error loading image"

\* C15 (the claim as stated): a load_image call that fails leaves
\* original_image, filename and file_size_before as they were before it.
C15_FailedLoadKeepsState ==
    [][FailedLoadStep =>
          /\ original_image' = original_image
          /\ filename' = filename
          /\ file_size_before' = file_size_before]_vars

(***************************************************************************)
(* Claims about the recent-files list (SpecRecent).                        *)
(***************************************************************************)
\* The position of e in a list without duplicates (0 when it is not there).
PositionIn(list, e) ==
    IF InList(list, e) THEN CHOOSE k \in DOMAIN list : list[k] = e ELSE 0

\* C16: after any number of add_to_recent_files calls from the empty list,
\* the list has at most 10 entries, no path twice and the path added last
\* at its front; and each call keeps the other paths in the order they
\* had, dropping only what no longer fits into 10 entries.
C16_RecentFilesList ==
    /\ [](LET list == RecentFiles(settings)
          IN  /\ Len(list) <= 10
              /\ \A i, j \in DOMAIN list : list[i] = list[j] => i = j
              /\ loads > 0 => list /= <<>> /\ list[1] = filename)
    /\ [][LET old == RecentFiles(settings)
              new == RecentFiles(settings')
          IN  loads' = loads + 1 =>
                /\ \A i, j \in 2 .. Len(new) :
                      i < j => /\ PositionIn(old, new[i]) > 0
                               /\ PositionIn(old, new[i]) < PositionIn(old, new[j])
                /\ Len(new) = Min(10, Len(old) + IF InList(old, new[1]) THEN 0 ELSE 1)]_vars

\* C16's case: the list is full, the path added first has been dropped
\* from its end and the path at the end has been moved to the front.
C16_Witness ==
    LET list == RecentFiles(settings)
    IN  /\ Len(list) = 10
        /\ ~InList(list, "p01")
        /\ list[1] = "p02"
        /\ list[2] = "p11"

\* The place of a stage in the order split, quantization matrix and codec
\* of the planes, merge, conversion back, metrics.
StageRank(stage) ==
    CASE stage = "split" -> 1
      [] stage \in {"matrix", "codec"} -> 2
      [] stage = "merge" -> 3
      [] stage = "convert" -> 4
      [] stage = "metrics" -> 5

WorkerStep == Len(threads') = Len(threads) /\ threads' /= threads

\* C20: no step of a run changes original_image, whether the run succeeds
\* or fails, and the image a run assigns to processed_image is a value of
\* its own, not the original.
C20_OriginalUntouched ==
    /\ [][WorkerStep => original_image' = original_image]_vars
    /\ [](processed_image /= None => processed_image /= original_image)

\* C20's case: a run that failed and a run that succeeded have both ended,
\* and original_image is still the image both were started on.
C20_Witness ==
    \E r1, r2 \in DOMAIN threads :
        /\ Succeeded(r1)
        /\ threads[r2].pc = "done" /\ threads[r2].failed
        /\ threads[r2].source /= None
        /\ original_image = threads[r1].source
        /\ original_image = threads[r2].source
        /\ processed_image /= None

(***************************************************************************)
(* Further claims about process_channel_dct (SpecCodec).                   *)
(***************************************************************************)
\* The samples of a plane of 8 x 8 as numpy flattens them, row by row.
Flat8x8(data) == [k \in 1 .. 64 |-> data[<<(k - 1) \div 8, (k - 1) % 8>>]]

\* C19: for the plane of 8 x 8 samples that are all 128, block size 8, the
\* Standard JPEG policy and level 1.0, the call returns one block of
\* coefficients that are all 0 and a plane whose 64 samples are all 128, so
\* that the mean squared error against the input is 0 (PSNR infinite).
C19_FlatBlockExact ==
    ( /\ pcd_pc = "returned"
      /\ channel = ConstPlane(8, 8, 128)
      /\ pcd_args.block_size = 8
      /\ pcd_args.quantization = "Standard JPEG"
      /\ pcd_args.compression_level = 100 ) =>
        /\ Len(coeffs) = 1
        /\ \A p \in Idx(8, 8) : coeffs[1][p] = 0
        /\ \A p \in Idx(8, 8) : returned[p] = 128
        /\ MseUint8(Flat8x8(channel.data), Flat8x8(returned)) = <<0, 64>>

\* C19's case: the call on that plane with those arguments has returned.
C19_Witness ==
    /\ pcd_pc = "returned"
    /\ channel = ConstPlane(8, 8, 128)
    /\ pcd_args.block_size = 8
    /\ pcd_args.quantization = "Standard JPEG"
    /\ pcd_args.compression_level = 100
    /\ q_matrix[<<0, 0>>] = 16 * QUnit
    /\ DOMAIN returned = Idx(8, 8)


\* C18 (the claim as stated): with the Uniform policy at compression level
\* 1.0 every step is exactly 1, and whatever the block size every sample of
\* the plane that process_channel_dct returns is within 1 of the sample it
\* was computed from.
C18_UnitStepRoundTripWithinOne ==
    (/\ pcd_pc = "returned"
     /\ pcd_args.quantization = "Uniform"
     /\ pcd_args.compression_level = 100)
        => /\ \A p \in DOMAIN q_matrix : q_matrix[p] = 1 * QUnit
           /\ \A p \in DOMAIN returned :
                /\ returned[p] - channel.data[p] <= 1
                /\ channel.data[p] - returned[p] <= 1


(***************************************************************************)
(* Claims about termination (SpecLive).                                    *)
(***************************************************************************)
\* Run r has left _apply_dct_thread.
Ended(r) == r \in DOMAIN threads /\ threads[r].pc = "done"

\* C21: every run that apply_dct started ends; it ends either with every
\* plane of its split processed to the last block and _update_after_dct
\* scheduled, or as a failure that was reported; and once a run has ended
\* the progress bar is eventually hidden.
C21_EveryRunEnds ==
    /\ \A r \in 1 .. MaxRuns : (r \in DOMAIN threads) ~> Ended(r)
    /\ \A r \in 1 .. MaxRuns : Ended(r) ~> (progress_shown = FALSE)
    /\ [](\A r \in DOMAIN threads :
            Ended(r) =>
               \/ threads[r].failed
               \/ /\ threads[r].channels /= <<>>
                  /\ Len(threads[r].processed_channels) = Len(threads[r].channels)
                  /\ \A k \in DOMAIN threads[r].processed_channels :
                        CompletePlane(threads[r].processed_channels[k],
                                      threads[r].args.block_size))

\* Both runs have ended, one of them as a failure, and the bar is hidden.
C21_Witness ==
    /\ Len(threads) = MaxRuns
    /\ \A r \in DOMAIN threads : Ended(r)
    /\ \E r \in DOMAIN threads : threads[r].failed
    /\ \E r \in DOMAIN threads : ~threads[r].failed
    /\ progress_shown = FALSE
    /\ after_queue = <<>>


(***************************************************************************)
(* Claims about the results of a run as the main thread sees them (Spec).  *)
(***************************************************************************)
\* C22 (the claim as stated): in no state, and so at no point at which a
\* handler of the main thread may run, is a processed_image or
\* dct_coefficients that a run assigned paired with a psnr_value or
\* compression_ratio of an earlier run, or a psnr_value with the
\* compression_ratio of an earlier run.
C22_MetricsAtomicWithResult ==
    /\ (processed_image /= None /\ psnr_value.by /= 0) =>
          psnr_value.by >= processed_image.run
    /\ (dct_coefficients /= None /\ psnr_value.by /= 0) =>
          psnr_value.by >= dct_coefficients.run
    /\ (dct_coefficients /= None /\ compression_ratio.by /= 0) =>
          compression_ratio.by >= dct_coefficients.run
    /\ (psnr_value.by /= 0 /\ compression_ratio.by /= 0) =>
          compression_ratio.by >= psnr_value.by


(***************************************************************************)
(* Claims about the blocks of process_channel_dct (SpecCodec).             *)
(***************************************************************************)
\* A step of the block loops that appended a block to the archive.
BlockStep == pcd_pc = "loop" /\ Len(coeffs') = Len(coeffs) + 1

\* C23: the quantization matrix has N x N entries for the block size N of
\* the call; the block with origin (y, x) has min(N, height - y) rows and
\* min(N, width - x) columns, no more and no fewer, its quantized values are
\* the rounded quotients of its coefficients by the entries at the same
\* positions of the matrix, counted from the top left, and exactly its
\* pixels of the plane are written.
C23_EdgeBlocksClipped ==
    /\ [](pcd_pc \in {"scale", "loop", "return", "returned", "raised"} =>
             DOMAIN q_matrix = Idx(pcd_args.block_size, pcd_args.block_size))
    /\ [][BlockStep =>
            LET n         == pcd_args.block_size
                rows      == Min(n, channel.shape[1] - y)
                cols      == Min(n, channel.shape[2] - x)
                quantized == coeffs'[Len(coeffs')]
            IN  /\ DOMAIN quantized = Idx(rows, cols)
                /\ \E c \in DctOutcomes(ShiftedBlock(channel.data, y, x, rows, cols)) :
                      \A p \in Idx(rows, cols) :
                         quantized[p] = Quantize(c[p], q_matrix[p])
                /\ \A p \in DOMAIN written :
                      written'[p] /= written[p]
                         <=> /\ p[1] \in y .. y + rows - 1
                             /\ p[2] \in x .. x + cols - 1]_vars

\* C23's case: a plane of 2 x 5 samples in blocks of 4 has returned; its
\* second block is 2 x 1 and its coefficients did not all round to zero.
C23_Witness ==
    /\ pcd_pc = "returned"
    /\ channel.shape = <<2, 5>>
    /\ pcd_args.block_size = 4
    /\ Len(coeffs) = 2
    /\ DOMAIN coeffs[1] = Idx(2, 4)
    /\ DOMAIN coeffs[2] = Idx(2, 1)
    /\ \E p \in DOMAIN coeffs[1] : coeffs[1][p] /= coeffs[1][<<0, 0>>]

\* C25: the blocks are processed and archived in row-major order: the block
\* that becomes entry k (counted from 0) of the archive has its origin at
\* y = N * (k div B), x = N * (k mod B), with B = ceil(width / N).
C25_RowMajorOrder ==
    [][BlockStep =>
         LET n == pcd_args.block_size
             k == Len(coeffs)
             B == CeilDiv(channel.shape[2], n)
         IN  /\ y = n * (k \div B)
             /\ x = n * (k % B)]_vars

\* C25's case: the third block of a plane with two blocks in a row, which
\* is the first of the second block row.
C25_Witness ==
    /\ pcd_pc = "loop"
    /\ Len(coeffs) = 2
    /\ CeilDiv(channel.shape[2], pcd_args.block_size) = 2
    /\ y = pcd_args.block_size
    /\ x = 0


\* |v| for an integer v.
Magnitude(v) == IF v < 0 THEN 0 - v ELSE v

\* C24: where the matrix entry m is at least 1, the value archived for a
\* coefficient c is q = round(c / m), and q * m, which dequantization makes
\* of it, differs from c by at most m / 2; and an archived block stays as
\* it was appended through the rest of its own iteration and through the
\* iterations of all later blocks, up to the return.
C24_QuantizationErrorBound ==
    /\ [][BlockStep =>
            LET n         == pcd_args.block_size
                rows      == Min(n, channel.shape[1] - y)
                cols      == Min(n, channel.shape[2] - x)
                quantized == coeffs'[Len(coeffs')]
            IN  \E c \in DctOutcomes(ShiftedBlock(channel.data, y, x, rows, cols)) :
                   \A p \in Idx(rows, cols) :
                      LET m == q_matrix[p]
                      IN  m >= 1 * QUnit =>
                            /\ quantized[p] = Quantize(c[p], m)
                            /\ 2 * Magnitude(c[p] * QUnit - Dequantize(quantized[p], m)) <= m]_vars
    /\ [][\A k \in DOMAIN coeffs : k \in DOMAIN coeffs' /\ coeffs'[k] = coeffs[k]]_vars

\* C24's case: two blocks are archived and the call has returned; the first
\* holds a coefficient that did not round to zero, for an entry above 1,
\* and one that lay exactly between two multiples of its entry.
C24_Witness ==
    /\ pcd_pc = "returned"
    /\ Len(coeffs) >= 2
    /\ q_matrix[<<0, 0>>] > 1 * QUnit
    /\ coeffs[1][<<0, 0>>] /= 0
    /\ q_matrix[<<0, 1>>] = 10 * QUnit
    /\ coeffs[1][<<0, 1>>] = 2


(***************************************************************************)
(* Claims about the history (Spec).                                        *)
(***************************************************************************)
\* A step of undo_action that popped an entry of the history.
UndoStep == Len(history') = Len(history) - 1

\* C26 (the claim as stated): when two runs on the same image have been
\* recorded in the history, first with result R1 and then with R2, and R2
\* is the current processed image, undo_action makes R1 the processed image
\* and shows the compression level and the PSNR recorded with R1.
C26_UndoRestoresPreviousResult ==
    [][(/\ UndoStep
        /\ Len(history) = 2
        /\ history[1].original = history[2].original
        /\ history[1].processed /= history[2].processed
        /\ processed_image = history[2].processed)
          => /\ processed_image' = history[1].processed
             /\ lbl_compression' = [percent |-> history[1].compression]
             /\ lbl_psnr' = [psnr |-> history[1].psnr]]_vars


(***************************************************************************)
(* Claims about a result and the image it belongs to (Spec, SpecReload).   *)
(***************************************************************************)
\* C27 (the claim as stated): whenever there is an original image, a
\* processed image that is there was made from it, and so was a coefficient
\* archive that is there: none made from a file loaded before is left.
C27_ResultBelongsToOriginal ==
    /\ (original_image /= None /\ processed_image /= None) =>
          processed_image.source = original_image
    /\ (original_image /= None /\ dct_coefficients /= None) =>
          threads[dct_coefficients.run].source = original_image

\* C28 (the claim as stated): the PSNR a run stores was computed against
\* the image the run split and compressed, whatever load_image did while
\* the worker was running.
C28_MetricsAgainstRunSource ==
    \A r \in DOMAIN threads :
       psnr_value.by = r => psnr_value.original = threads[r].source


\* C29: the toolbar's undo button is enabled exactly when the history is
\* not empty; and while the history is empty, only a worker thread's
\* assignment changes processed_image and only the recording of a finished
\* run changes the history, so an undo_action then changes neither.
C29_UndoButtonTracksHistory ==
    /\ [](toolbar_buttons["undo"] = "normal" <=> history /= <<>>)
    /\ [][history = <<>> =>
            /\ processed_image' /= processed_image => WorkerStep
            /\ history' /= history =>
                  /\ after_queue /= <<>>
                  /\ Head(after_queue) = "_update_after_dct"
                  /\ after_queue' = Tail(after_queue)
                  /\ Len(history') = 1]_vars

\* C29's case: two runs were recorded and two undo_action calls have
\* emptied the history again; the button is disabled, the image is there.
C29_Witness ==
    /\ loads = 1
    /\ Len(threads) = 2
    /\ \A r \in DOMAIN threads : Succeeded(r)
    /\ after_queue = <<>>
    /\ history = <<>>
    /\ toolbar_buttons["undo"] = "disabled"
    /\ toolbar_buttons["redo"] = "normal"
    /\ processed_image /= None

=============================================================================
